---- MODULE Spec2Model ----
(***************************************************************************)
(* A model of the Tarsier storage engine: the Table facade                 *)
(* (datastore.rs), the B-tree (btree.rs), the scan cursor (cursor.rs) and  *)
(* the pager with its page codec (pager.rs).                               *)
(*                                                                         *)
(* A page of 4096 bytes is a record of the fields the codec reads and      *)
(* writes.  A fixed-width NUL-padded byte field is the sequence of its     *)
(* bytes without the trailing padding.  The file is the sequence of its    *)
(* pages.  A panic of the program is the control state "panicked".         *)
(***************************************************************************)
EXTENDS Integers, Sequences, FiniteSets, TLC

VARIABLES
    file,       \* the backing file: a sequence of pages (page i at index i + 1)
    pager,      \* Pager: [num_pages, page_cache]; page_cache maps offsets to pages
    root,       \* BTree.root: the in-memory root node
    pc,         \* "open" | "closed" | "panicked"
    result,     \* the ExecuteResult of the last statement
    last,       \* the last statement: [op, row, found]
    inserted,   \* the rows whose execute_insert returned InsertSuccess
    distinct,   \* no insert statement so far named a key inserted before
    closes,     \* number of Table::close calls so far
    ops,        \* number of insert statements (in SpecPager: direct calls) so far
    dirty,      \* an insert statement was executed since the table was opened
    leaves,     \* the leaves of node.rs, in key order (specification SpecNode)
    call,       \* the last direct call of a Pager method (specification SpecPager)
    commits,    \* the node last given to a direct commit_page call, by offset
    codec       \* the last conversion applied directly (specification SpecCodec)

vars == <<file, pager, root, pc, result, last, inserted, distinct, closes, ops,
          dirty, leaves, call, commits, codec>>

-----------------------------------------------------------------------------
(* Bounds of the model *)

MaxOps == 3          \* insert statements per behaviour of Spec
MaxCloses == 1       \* close / reopen cycles per behaviour of Spec
MaxDescending == 650 \* insert statements per behaviour of SpecDescending
NodePreload == 8     \* cells of the leaf SpecNode starts from
MaxNodeKey == 18     \* largest key SpecNode inserts
MaxOffset == 3       \* largest page number SpecPager asks get_page for
MaxCalls == 4        \* direct Pager calls per behaviour of SpecPager
MaxSeparators == 3   \* separators of the nodes insert_internal_child is tried on

(* Program constants *)

MAX_CELLS == 12             \* the literal 12 of btree.rs
MAX_INTERNAL_NODES == 511
MAX_LEAF_NODES == 12
PAGE_SIZE == 4096
TABLE_MAX_PAGES == 100
USERNAME_SIZE == 32
EMAIL_SIZE == 255
None == -1                  \* Option::None of an offset

-----------------------------------------------------------------------------
(* Sequence helpers standing for Vec operations *)

Min(a, b) == IF a < b THEN a ELSE b

Take(s, n) == SubSeq(s, 1, Min(Len(s), n))

\* Vec::insert(index, e), index counted from 0; the caller checks index <= len
VecInsert(s, index, e) ==
    SubSeq(s, 1, index) \o <<e>> \o SubSeq(s, index + 1, Len(s))

\* the bytes before the first NUL (str::split_once("\0"))
UpToNul(s) ==
    LET nul == {i \in 1..Len(s) : s[i] = 0}
    IN  IF nul = {} THEN s
        ELSE SubSeq(s, 1, (CHOOSE i \in nul : \A j \in nul : i <= j) - 1)

\* a buffer without its trailing zero bytes
RECURSIVE StripZeros(_)
StripZeros(s) ==
    IF s = <<>> THEN <<>>
    ELSE IF s[Len(s)] = 0 THEN StripZeros(SubSeq(s, 1, Len(s) - 1))
    ELSE s

-----------------------------------------------------------------------------
(* Row codec, datastore.rs *)

Row(id, username, email) == [id |-> id, username |-> username, email |-> email]

\* Row::serialize: id, then username resized to 32 bytes, then email resized
\* to 255 bytes (resize truncates or pads with zeros)
RowSerialize(r) ==
    [id       |-> r.id,
     username |-> StripZeros(Take(r.username, USERNAME_SIZE)),
     email    |-> StripZeros(Take(r.email, EMAIL_SIZE))]

\* Row::deserialize: each string field is read up to its first NUL
RowDeserialize(b) ==
    Row(b.id, UpToNul(b.username), UpToNul(b.email))

ZeroRowBytes == [id |-> 0, username |-> <<>>, email |-> <<>>]

ROW_SIZE == 291

\* u32::to_ne_bytes and u32::from_ne_bytes on a little-endian target, for
\* values below 2^31
to_ne_bytes(x) ==
    <<x % 256, (x \div 256) % 256, (x \div 65536) % 256, (x \div 16777216) % 256>>

from_ne_bytes(b) == b[1] + 256 * b[2] + 65536 * b[3] + 16777216 * b[4]

\* Vec::resize(new_len, 0): truncate, or pad with zero bytes
Resize(s, new_len) == [i \in 1..new_len |-> IF i <= Len(s) THEN s[i] ELSE 0]

\* the number of continuation bytes the lead byte of a UTF-8 sequence asks
\* for; None for a byte that cannot lead
Utf8Follow(b) ==
    IF b < 128 THEN 0
    ELSE IF b >= 194 /\ b <= 223 THEN 1
    ELSE IF b >= 224 /\ b <= 239 THEN 2
    ELSE IF b >= 240 /\ b <= 244 THEN 3
    ELSE None

\* std::str::from_utf8(..).is_ok(), up to the overlong and surrogate forms:
\* the first byte is no continuation byte, and every other byte that is none
\* leads exactly the continuation bytes it asks for
ValidUtf8(s) ==
    LET Cont(i) == s[i] >= 128 /\ s[i] <= 191
    IN  /\ s # <<>> => ~Cont(1)
        /\ \A i \in 1..Len(s) :
              ~Cont(i) =>
                 LET n == Utf8Follow(s[i])
                 IN  /\ n # None
                     /\ i + n <= Len(s)
                     /\ \A j \in (i + 1)..(i + n) : Cont(j)
                     /\ i + n + 1 <= Len(s) => ~Cont(i + n + 1)

\* Row::serialize as bytes
serialize(r) ==
    Resize(Resize(to_ne_bytes(r.id) \o r.username, 36) \o r.email, 291)

\* Row::deserialize of a buffer of at least 36 bytes: [panic, row];
\* from_utf8(..).unwrap() panics on bytes that are not UTF-8
deserialize(data) ==
    LET id_bytes       == SubSeq(data, 1, 4)
        rest           == SubSeq(data, 5, Len(data))
        username_bytes == SubSeq(rest, 1, 32)
        email          == SubSeq(rest, 33, Len(rest))
    IN  [panic |-> ~ValidUtf8(username_bytes) \/ ~ValidUtf8(email),
         row   |-> Row(from_ne_bytes(id_bytes), UpToNul(username_bytes), UpToNul(email))]

-----------------------------------------------------------------------------
(* Nodes, btree.rs *)

KeyValuePair(key, value) == [key |-> key, value |-> value]

Fetched(n) == [fetched |-> TRUE, node |-> n, page |-> n.page_num]
Unfetched(p) == [fetched |-> FALSE, node |-> None, page |-> p]

\* Child::new
Child(key, left_page, right_page) ==
    [key |-> key, left |-> Unfetched(left_page), right |-> Unfetched(right_page)]

\* Node::leaf_with_children
leaf_with_children(children) ==
    [is_root       |-> FALSE,
     kind          |-> "Leaf",
     cells         |-> children,
     children      |-> <<>>,
     parent_offset |-> None,
     num_cells     |-> Len(children),
     page_num      |-> 0]

\* Node::leaf
leaf == leaf_with_children(<<>>)

\* Node::internal
internal ==
    [is_root       |-> FALSE,
     kind          |-> "Internal",
     cells         |-> <<>>,
     children      |-> <<>>,
     parent_offset |-> None,
     num_cells     |-> 0,
     page_num      |-> 0]

\* Node::get: an Option as a sequence of at most one element
Node_get(n, cell_num) ==
    IF n.kind = "Leaf" /\ cell_num < Len(n.cells) THEN <<n.cells[cell_num + 1]>> ELSE <<>>

\* Node::insert with the cursor's cell index ignored: the pair is pushed at
\* the end of the leaf
Node_insert_push(n, cell_num, key, value) ==
    IF n.kind # "Leaf" THEN [ok |-> FALSE, panic |-> TRUE, node |-> n]
    ELSE IF Len(n.cells) >= MAX_CELLS THEN [ok |-> FALSE, panic |-> FALSE, node |-> n]
    ELSE [ok    |-> TRUE,
          panic |-> FALSE,
          node  |-> [n EXCEPT !.cells = Append(n.cells, KeyValuePair(key, value)),
                              !.num_cells = n.num_cells + 1]]

\* Node::insert that stores the pair and leaves num_cells as it was
Node_insert_uncounted(n, cell_num, key, value) ==
    IF n.kind # "Leaf" THEN [ok |-> FALSE, panic |-> TRUE, node |-> n]
    ELSE IF Len(n.cells) >= MAX_CELLS THEN [ok |-> FALSE, panic |-> FALSE, node |-> n]
    ELSE IF cell_num > Len(n.cells) THEN [ok |-> FALSE, panic |-> TRUE, node |-> n]
    ELSE [ok    |-> TRUE,
          panic |-> FALSE,
          node  |-> [n EXCEPT !.cells = VecInsert(n.cells, cell_num, KeyValuePair(key, value))]]

\* Node::insert on a leaf: [ok, panic, node]; Vec::insert panics when the
\* index is past the end
Node_insert(n, cell_num, key, value) ==
    IF n.kind # "Leaf" THEN [ok |-> FALSE, panic |-> TRUE, node |-> n]
    ELSE IF Len(n.cells) >= MAX_CELLS THEN [ok |-> FALSE, panic |-> FALSE, node |-> n]
    ELSE IF cell_num > Len(n.cells) THEN [ok |-> FALSE, panic |-> TRUE, node |-> n]
    ELSE [ok    |-> TRUE,
          panic |-> FALSE,
          node  |-> [n EXCEPT !.cells = VecInsert(n.cells, cell_num, KeyValuePair(key, value)),
                              !.num_cells = n.num_cells + 1]]

IsSorted(cells) ==
    \A i \in 1..(Len(cells) - 1) : cells[i].key <= cells[i + 1].key

\* slice::binary_search_by over the cells: the set of results it may give.
\* On a sorted slice: Ok(i) for a matching i (any of them when the key is
\* repeated), else Err(insertion point).  On an unsorted slice the result is
\* unspecified: Ok(i) needs cells[i].key = k, Err may carry any index.
binary_search(cells, k) ==
    LET hits == {i \in 1..Len(cells) : cells[i].key = k}
        oks  == {[ok |-> TRUE, index |-> i - 1] : i \in hits}
    IN  IF IsSorted(cells)
        THEN IF hits # {} THEN oks
             ELSE {[ok    |-> FALSE,
                    index |-> Cardinality({i \in 1..Len(cells) : cells[i].key < k})]}
        ELSE oks \cup {[ok |-> FALSE, index |-> j] : j \in 0..Len(cells)}

\* Node::find on a leaf: results (page_num, cell index)
Node_find(n, k) ==
    {[ok |-> r.ok, page_num |-> n.page_num, cell_num |-> r.index] :
        r \in binary_search(n.cells, k)}

\* Node::split cutting one cell below the middle
Node_split_low(n, new_page_num) ==
    LET half  == (Len(n.cells) \div 2) - 1
        upper == SubSeq(n.cells, half + 1, Len(n.cells))
        lower == SubSeq(n.cells, 1, half)
    IN  [lower |-> [n EXCEPT !.cells = lower, !.num_cells = Len(lower)],
         upper |-> [leaf_with_children(upper) EXCEPT !.page_num = new_page_num]]

\* Node::split that moves no cell: the new leaf stays empty
Node_split_none(n, new_page_num) ==
    [lower |-> n,
     upper |-> [leaf_with_children(<<>>) EXCEPT !.page_num = new_page_num]]

\* Node::split: [lower, upper]; the upper half moves to a new leaf
Node_split(n, new_page_num) ==
    LET half  == Len(n.cells) \div 2
        upper == SubSeq(n.cells, half + 1, Len(n.cells))
        lower == SubSeq(n.cells, 1, half)
    IN  [lower |-> [n EXCEPT !.cells = lower, !.num_cells = Len(lower)],
         upper |-> [leaf_with_children(upper) EXCEPT !.page_num = new_page_num]]

\* Node::largest_key
largest_key(n) ==
    IF n.kind = "Leaf" /\ n.cells # <<>> THEN n.cells[Len(n.cells)].key ELSE None

\* Node::insert_internal_child: BTreeSet::insert of a Child ordered by key;
\* [ok, node]
insert_internal_child(n, record) ==
    IF n.kind # "Internal" THEN [ok |-> FALSE, node |-> n]
    ELSE IF \E i \in 1..Len(n.children) : n.children[i].key = record.key
         THEN [ok |-> FALSE, node |-> n]
    ELSE LET at == Cardinality({i \in 1..Len(n.children) : n.children[i].key < record.key})
         IN  [ok |-> TRUE,
              node |-> [n EXCEPT !.children = VecInsert(n.children, at, record)]]

-----------------------------------------------------------------------------
(* Pages and the page codec, pager.rs *)

\* Page::new: 4096 zero bytes.  cells is the cell area read from byte 10 on
\* (CELL_OFFSET); rightmost and slots are the same bytes as the internal
\* arm of the encoder writes them (RIGHTMOST_CHILD_OFFSET = 10, slots from 14).
Page_new ==
    [is_root   |-> 0,
     parent    |-> 0,
     num_cells |-> 0,
     cells     |-> <<>>,
     rightmost |-> 0,
     slots     |-> <<>>]

\* the page number a slot stores for a child; None stands for u32::MAX,
\* which the encoder writes for an Unfetched child
SlotOffset(f) == IF f.fetched THEN f.node.page_num ELSE None

\* impl TryFrom<&Node<usize, Row>> for Page.  Keys are row ids (u32) and
\* offsets and counts stay far below 2^32, so the casts "as u32" keep them.
Encode(n) ==
    LET head == [Page_new EXCEPT
                    !.is_root   = IF n.is_root THEN 1 ELSE 0,
                    !.parent    = IF n.parent_offset # None
                                  THEN n.parent_offset ELSE 0,
                    !.num_cells = n.num_cells]
    IN  IF n.kind = "Leaf"
        THEN [head EXCEPT !.cells =
                [i \in 1..Len(n.cells) |->
                    [key |-> n.cells[i].key,
                     value |-> RowSerialize(n.cells[i].value)]]]
        ELSE [head EXCEPT
                !.rightmost = Len(n.children) - 1,
                !.slots = [i \in 1..Len(n.children) |->
                            [left  |-> SlotOffset(n.children[i].left),
                             key   |-> n.children[i].key,
                             right |-> SlotOffset(n.children[i].right)]]]

\* cell i (from 1) of the cell area; bytes never written are zero
PageCell(page, i) ==
    IF i <= Len(page.cells) THEN page.cells[i]
    ELSE [key |-> 0, value |-> ZeroRowBytes]

\* impl TryFrom<&Page> for Node<usize, Row>: the node starts as Node::leaf()
\* whatever wrote the page
Decode(page) ==
    LET is_root == page.is_root = 1
        n == Min(page.num_cells, MAX_CELLS)
    IN  [is_root       |-> is_root,
         kind          |-> "Leaf",
         cells         |-> [i \in 1..n |->
                              KeyValuePair(PageCell(page, i).key,
                                           RowDeserialize(PageCell(page, i).value))],
         children      |-> <<>>,
         parent_offset |-> IF is_root THEN None ELSE page.parent,
         num_cells     |-> page.num_cells,
         page_num      |-> 0]

-----------------------------------------------------------------------------
(* Pager, pager.rs *)

\* File::read of one page at page offset page_num; a read past the end of
\* the file leaves the zeroed buffer
FileRead(f, page_num) ==
    IF page_num < Len(f) THEN f[page_num + 1] ELSE Page_new

\* a write that ignores the position of the file and appends the page
FileWrite_append(f, pos, page) == Append(f, page)

\* File::write of one page at byte position pos
FileWrite(f, pos, page) ==
    LET at == pos \div PAGE_SIZE + 1
        n  == IF at > Len(f) THEN at ELSE Len(f)
    IN  [i \in 1..n |-> IF i = at THEN page
                        ELSE IF i <= Len(f) THEN f[i] ELSE Page_new]

\* an open that takes any length for a whole number of pages
Pager_open_unchecked(file_length) ==
    [panic |-> FALSE,
     pager |-> [num_pages  |-> file_length \div PAGE_SIZE,
                page_cache |-> [o \in {} |-> Page_new]]]

\* Pager::open on a file of file_length bytes: [panic, pager]; it prints
\* "DB file is not a whole number of pages. CORRUPT FILE." and panics when
\* the length is not a multiple of the page size
Pager_open_len(file_length) ==
    [panic |-> file_length % PAGE_SIZE # 0,
     pager |-> [num_pages  |-> file_length \div PAGE_SIZE,
                page_cache |-> [o \in {} |-> Page_new]]]

\* Pager::open on a file of whole pages
Pager_open(f) == Pager_open_len(Len(f) * PAGE_SIZE).pager

Cached(pgr, page_num) == page_num \in DOMAIN pgr.page_cache

CachePut(cache, page_num, page) ==
    [o \in DOMAIN cache \cup {page_num} |-> IF o = page_num THEN page ELSE cache[o]]

\* a get_page that caches the new page and leaves num_pages as it was
get_page_uncounted(pgr, f, page_num) ==
    LET p1 == IF Cached(pgr, page_num) THEN pgr
              ELSE IF page_num < pgr.num_pages
                   THEN [pgr EXCEPT !.page_cache =
                            CachePut(pgr.page_cache, page_num, FileRead(f, page_num))]
                   ELSE [pgr EXCEPT !.page_cache =
                            CachePut(pgr.page_cache, page_num, Page_new)]
    IN  [pager |-> p1,
         node  |-> [Decode(p1.page_cache[page_num]) EXCEPT !.page_num = page_num]]

\* Pager::get_page: [pager, node]
get_page(pgr, f, page_num) ==
    LET p1 == IF Cached(pgr, page_num) THEN pgr
              ELSE IF page_num < pgr.num_pages
                   THEN [pgr EXCEPT !.page_cache =
                            CachePut(pgr.page_cache, page_num, FileRead(f, page_num))]
                   ELSE [num_pages  |-> pgr.num_pages + 1,
                         page_cache |-> CachePut(pgr.page_cache, page_num, Page_new)]
    IN  [pager |-> p1,
         node  |-> [Decode(p1.page_cache[page_num]) EXCEPT !.page_num = page_num]]

\* commit_page that never raises num_pages
commit_page_uncounted(pgr, n) ==
    [num_pages  |-> pgr.num_pages,
     page_cache |-> CachePut(pgr.page_cache, n.page_num, Encode(n))]

\* Pager::commit_page
commit_page(pgr, n) ==
    [num_pages  |-> IF n.page_num > pgr.num_pages THEN n.page_num + 1 ELSE pgr.num_pages,
     page_cache |-> CachePut(pgr.page_cache, n.page_num, Encode(n))]

\* Pager::close, the loop body for page i and on: every iteration seeks to
\* the start of the file before it writes or skips
RECURSIVE close_loop(_, _, _)
close_loop(pgr, f, i) ==
    IF i >= pgr.num_pages THEN f
    ELSE LET pos == 0
         IN  IF Cached(pgr, i)
             THEN close_loop(pgr, FileWrite(f, pos, pgr.page_cache[i]), i + 1)
             ELSE close_loop(pgr, f, i + 1)

Pager_close(pgr, f) == close_loop(pgr, f, 0)

-----------------------------------------------------------------------------
(* BTree, btree.rs *)

\* BTree::new: [pager, root]
BTree_new(pgr, f) ==
    IF pgr.num_pages = 0
    THEN LET g == get_page(pgr, f, 0)
             root_node == [g.node EXCEPT !.is_root = TRUE]
         IN  [pager |-> commit_page(g.pager, root_node), root |-> root_node]
    ELSE LET g == get_page(pgr, f, 0)
         IN  [pager |-> g.pager, root |-> g.node]

Cursor(page_num, cell_num, end_of_table) ==
    [page_num |-> page_num, cell_num |-> cell_num, end_of_table |-> end_of_table]

\* the index of the Child _find descends into: the last one whose key is
\* <= k (children.range(..=k).next_back()), else the first
ChildIndex(children, k) ==
    LET le == {i \in 1..Len(children) : children[i].key <= k}
    IN  IF le # {} THEN CHOOSE i \in le : \A j \in le : j <= i ELSE 1

\* BTree::_find: [panic, pager, node, results]; node is the node searched,
\* with the children fetched on the way stored in it; results is the set of
\* [ok, cursor] the search may return
RECURSIVE _find(_, _, _, _)
_find(k, node, pgr, f) ==
    IF node.kind = "Internal"
    THEN IF node.children = <<>>
         THEN [panic |-> TRUE, pager |-> pgr, node |-> node, results |-> {}]
         ELSE LET i    == ChildIndex(node.children, k)
                  c    == node.children[i]
                  side == IF k > c.key THEN "right" ELSE "left"
                  had  == c[side]
                  g    == IF had.fetched THEN [pager |-> pgr, node |-> had.node]
                          ELSE get_page(pgr, f, had.page)
                  sub  == _find(k, g.node, g.pager, f)
              IN  [panic   |-> sub.panic,
                   pager   |-> sub.pager,
                   node    |-> [node EXCEPT !.children[i][side] = Fetched(sub.node)],
                   results |-> sub.results]
    ELSE [panic   |-> FALSE,
          pager   |-> pgr,
          node    |-> node,
          results |->
            {[ok |-> r.ok,
              cursor |-> Cursor(r.page_num, r.cell_num,
                                (pgr.num_pages - 1) = r.page_num /\ r.cell_num >= MAX_CELLS)] :
                r \in Node_find(node, k)}]

\* BTree::find
BTree_find(k, rt, pgr, f) == _find(k, rt, pgr, f)

\* the split arm moving the old node to the offset the new node takes
insert_split_shared(pgr, rt, node, value) ==
    LET sp          == Node_split(node, pgr.num_pages)
        parent_page == node.page_num                  \* after the swaps
        node1       == [sp.lower EXCEPT !.page_num = pgr.num_pages,
                                        !.is_root = FALSE,
                                        !.parent_offset = parent_page]
        new_node    == [sp.upper EXCEPT !.parent_offset = parent_page]
        new_parent  == [internal EXCEPT !.page_num = parent_page,
                                        !.is_root = node.is_root]
        lower_largest_key == largest_key(node1)
    IN  IF lower_largest_key = None \/ value.id = lower_largest_key
        THEN [ret |-> "panic", pager |-> pgr, root |-> rt]
        ELSE LET less   == value.id < lower_largest_key
                 node2  == IF less THEN Node_insert(node1, 0, value.id, value).node
                           ELSE node1
                 new2   == IF less THEN new_node
                           ELSE Node_insert(new_node, 0, value.id, value).node
                 p1     == commit_page(pgr, node2)
                 p2     == commit_page(p1, new2)
                 record == [Child(lower_largest_key, node1.page_num, new_node.page_num)
                                EXCEPT !.left = Fetched(node2), !.right = Fetched(new2)]
                 ins    == insert_internal_child(new_parent, record)
             IN  IF ~ins.ok THEN [ret |-> "panic", pager |-> p2, root |-> rt]
                 ELSE [ret   |-> "true",
                       pager |-> commit_page(p2, ins.node),
                       root  |-> IF ins.node.is_root THEN ins.node ELSE rt]

\* BTree::insert, the arm that splits a full leaf: [ret, pager, root]
insert_split(pgr, rt, node, value) ==
    LET sp          == Node_split(node, pgr.num_pages)
        parent_page == node.page_num                  \* after the swaps
        node1       == [sp.lower EXCEPT !.page_num = pgr.num_pages + 1,
                                        !.is_root = FALSE,
                                        !.parent_offset = parent_page]
        new_node    == [sp.upper EXCEPT !.parent_offset = parent_page]
        new_parent  == [internal EXCEPT !.page_num = parent_page,
                                        !.is_root = node.is_root]
        lower_largest_key == largest_key(node1)
    IN  IF lower_largest_key = None \/ value.id = lower_largest_key
        THEN [ret |-> "panic", pager |-> pgr, root |-> rt]
        ELSE LET less   == value.id < lower_largest_key
                 node2  == IF less THEN Node_insert(node1, 0, value.id, value).node
                           ELSE node1
                 new2   == IF less THEN new_node
                           ELSE Node_insert(new_node, 0, value.id, value).node
                 p1     == commit_page(pgr, node2)
                 p2     == commit_page(p1, new2)
                 record == [Child(lower_largest_key, node1.page_num, new_node.page_num)
                                EXCEPT !.left = Fetched(node2), !.right = Fetched(new2)]
                 ins    == insert_internal_child(new_parent, record)
             IN  IF ~ins.ok THEN [ret |-> "panic", pager |-> p2, root |-> rt]
                 ELSE [ret   |-> "true",
                       pager |-> commit_page(p2, ins.node),
                       root  |-> IF ins.node.is_root THEN ins.node ELSE rt]

\* BTree::insert: [ret, pager, root] with ret "true", "false" or "panic"
BTree_insert(pgr, f, rt, cursor, value) ==
    LET g    == get_page(pgr, f, cursor.page_num)
        node == g.node
    IN  IF node.num_cells >= MAX_CELLS
        THEN insert_split(g.pager, rt, node, value)
        ELSE LET ins == Node_insert(node, cursor.cell_num, value.id, value)
             IN  IF ins.panic THEN [ret |-> "panic", pager |-> g.pager, root |-> rt]
                 ELSE IF ins.ok
                      THEN [ret   |-> "true",
                            pager |-> commit_page(g.pager, ins.node),
                            root  |-> IF ins.node.is_root THEN ins.node ELSE rt]
                      ELSE [ret |-> "false", pager |-> g.pager, root |-> rt]

\* BTree::get: [panic, pager, row]; unwrap panics when the cell does not exist
BTree_get(pgr, f, page_num, cell_num) ==
    LET g  == get_page(pgr, f, page_num)
        kv == Node_get(g.node, cell_num)
    IN  [panic |-> kv = <<>>,
         pager |-> g.pager,
         row   |-> IF kv = <<>> THEN <<>> ELSE <<kv[1].value>>]

-----------------------------------------------------------------------------
(* Cursor, cursor.rs *)

\* Cursor::start
Cursor_start(rt) == Cursor(rt.page_num, 0, rt.num_cells = 0)

\* Cursor::advance
Cursor_advance(c, rt) ==
    [c EXCEPT !.cell_num = c.cell_num + 1,
              !.end_of_table = c.end_of_table \/ (c.cell_num + 1 >= rt.num_cells)]

-----------------------------------------------------------------------------
(* Table, datastore.rs *)

InsertSuccess == [kind |-> "InsertSuccess", rows |-> <<>>]
DuplicateKey  == [kind |-> "DuplicateKey", rows |-> <<>>]
TableFull     == [kind |-> "TableFull", rows |-> <<>>]
SelectSuccess(rows) == [kind |-> "SelectSuccess", rows |-> rows]
NoResult      == [kind |-> "None", rows |-> <<>>]
Panicked      == [kind |-> "Panic", rows |-> <<>>]

\* Table::open: [pager, root]
Table_open(f) == BTree_new(Pager_open(f), f)

\* Table::execute_insert for one result of the search: [result, pager, root]
execute_insert(pgr, f, rt, row, found) ==
    IF found.ok THEN [result |-> DuplicateKey, pager |-> pgr, root |-> rt]
    ELSE LET ins == BTree_insert(pgr, f, rt, found.cursor, row)
         IN  [result |-> CASE ins.ret = "true"  -> InsertSuccess
                           [] ins.ret = "false" -> TableFull
                           [] OTHER             -> Panicked,
              pager  |-> ins.pager,
              root   |-> ins.root]

\* Table::execute_select, the while loop: [panic, pager, rows]
RECURSIVE select_loop(_, _, _, _, _)
select_loop(pgr, f, rt, cursor, rows) ==
    IF cursor.end_of_table THEN [panic |-> FALSE, pager |-> pgr, rows |-> rows]
    ELSE LET g == BTree_get(pgr, f, cursor.page_num, cursor.cell_num)
         IN  IF g.panic THEN [panic |-> TRUE, pager |-> g.pager, rows |-> rows]
             ELSE select_loop(g.pager, f, rt, Cursor_advance(cursor, rt),
                              Append(rows, g.row[1]))

execute_select(pgr, f, rt) == select_loop(pgr, f, rt, Cursor_start(rt), <<>>)

-----------------------------------------------------------------------------
(* Leaves of node.rs: Node<K, V> with the sibling offsets next_leaf and     *)
(* last_leaf.  The tree that calls them is not part of node.rs.            *)

\* Node::leaf_with_children of node.rs: no sibling, offset 0
node_leaf_with_children(children) ==
    [is_root       |-> FALSE,
     children      |-> children,
     next_leaf     |-> None,
     last_leaf     |-> None,
     parent_offset |-> None,
     num_cells     |-> Len(children),
     offset        |-> 0]

\* Node::leaf of node.rs
node_leaf == node_leaf_with_children(<<>>)

\* Node::smallest_key
smallest_key(n) == IF n.children = <<>> THEN None ELSE n.children[1].key

\* insert_leaf storing the new pair behind the last one
insert_leaf_push(n, key, value) ==
    {IF r.ok
     THEN [result |-> "DuplicateKey", node |-> n, separator |-> None, tree |-> node_leaf]
     ELSE LET children == Append(n.children, KeyValuePair(key, value))
              num_cells == n.num_cells + 1
          IN  IF num_cells <= MAX_LEAF_NODES
              THEN [result    |-> "Success",
                    node      |-> [n EXCEPT !.children = children, !.num_cells = num_cells],
                    separator |-> None,
                    tree      |-> node_leaf]
              ELSE LET at       == (Len(children) \div 2) - 1
                       lower    == SubSeq(children, 1, at)
                       upper    == SubSeq(children, at + 1, Len(children))
                       new_node == node_leaf_with_children(upper)
                   IN  [result    |-> "ParentSplit",
                        node      |-> [n EXCEPT !.children = lower,
                                                !.num_cells = Len(lower)],
                        separator |-> smallest_key(new_node),
                        tree      |-> new_node] :
        r \in binary_search(n.children, key)}

\* Node::insert_leaf: the set of [result, node, separator, tree] it may
\* return, one per result of the binary search; tree is the new right leaf
\* of a ParentSplit
insert_leaf(n, key, value) ==
    {IF r.ok
     THEN [result |-> "DuplicateKey", node |-> n, separator |-> None, tree |-> node_leaf]
     ELSE LET children == VecInsert(n.children, r.index, KeyValuePair(key, value))
              num_cells == n.num_cells + 1
          IN  IF num_cells <= MAX_LEAF_NODES
              THEN [result    |-> "Success",
                    node      |-> [n EXCEPT !.children = children, !.num_cells = num_cells],
                    separator |-> None,
                    tree      |-> node_leaf]
              ELSE LET at       == (Len(children) \div 2) - 1
                       lower    == SubSeq(children, 1, at)
                       upper    == SubSeq(children, at + 1, Len(children))
                       new_node == node_leaf_with_children(upper)
                   IN  [result    |-> "ParentSplit",
                        node      |-> [n EXCEPT !.children = lower,
                                                !.num_cells = Len(lower)],
                        separator |-> smallest_key(new_node),
                        tree      |-> new_node] :
        r \in binary_search(n.children, key)}

\* Node::set_next_leaf: the pattern binds a copy of the Option, so replace /
\* take act on the copy and the node keeps its next_leaf: [node, replaced]
set_next_leaf(n, next) == [node |-> n, replaced |-> n.next_leaf]

\* Node::set_last_leaf, the same way
set_last_leaf(n, last_off) == [node |-> n, replaced |-> n.last_leaf]

\* Node::get_next_leaf
get_next_leaf(n) == n.next_leaf

\* Node::get_last_leaf
get_last_leaf(n) == n.last_leaf

-----------------------------------------------------------------------------------------------------------------------------------------------------
(* The rows the statements insert, and the files a table is opened on *)

RowOf(k) == Row(k, <<1 + (k % 250)>>, <<1 + (k % 250), 64, 1>>)

BaseKey(i) == 10 * i

\* keys below, among, between and above the keys of PreloadFile
Keys == {5, 60, 65, 125}

\* the row of key 60 differs from the one PreloadFile stores under that key
InputRows == {IF k = 60 THEN Row(k, <<7>>, <<7, 64, 1>>) ELSE RowOf(k) : k \in Keys}

\* the file left by an earlier session that inserted BaseKey(1..n),
\* n <= 12, into a fresh table and closed it: one page, the root leaf
PreloadFile(n) ==
    <<Encode([leaf_with_children([i \in 1..n |-> KeyValuePair(BaseKey(i), RowOf(BaseKey(i)))])
                EXCEPT !.is_root = TRUE])>>

InitFiles == {<<>>, PreloadFile(MAX_CELLS - 1), PreloadFile(MAX_CELLS)}

\* a file of two pages: a full root leaf and a page no node refers to
TwoPageFile ==
    PreloadFile(MAX_CELLS)
      \o <<Encode(leaf_with_children(
              <<KeyValuePair(BaseKey(MAX_CELLS + 1), RowOf(BaseKey(MAX_CELLS + 1)))>>))>>

\* the pages of the tree after the first split, each at its own offset
SplitFile ==
    LET f == PreloadFile(MAX_CELLS)
        t == Table_open(f)
        s == BTree_find(5, t.root, t.pager, f)
        found == CHOOSE r \in s.results : TRUE
        e == execute_insert(s.pager, f, s.node, RowOf(5), found)
    IN  [i \in 1..e.pager.num_pages |-> e.pager.page_cache[i - 1]]

\* files a table was stored in before
ExistingFiles == {PreloadFile(MAX_CELLS - 1), PreloadFile(MAX_CELLS), TwoPageFile, SplitFile}

\* SpecDescending inserts TopKey, TopKey - 1, ... into a fresh table
TopKey == 1000

-----------------------------------------------------------------------------
(* The state machine *)

NoRow == Row(0, <<>>, <<>>)

\* no Pager method was called directly
NoCall ==
    [op |-> "none", arg |-> 0, panic |-> FALSE,
     before |-> Pager_open(<<>>), after |-> Pager_open(<<>>), node |-> <<>>]

\* no conversion was applied directly
NoCodec ==
    [what |-> "none", rev |-> "none", step |-> "none", input |-> <<>>,
     bytes |-> <<>>, output |-> <<>>, panic |-> FALSE]

\* no node was committed by a direct call
NoCommits == [o \in {} |-> leaf]

InitOn(f) ==
    LET t == Table_open(f)
    IN  /\ file = f
        /\ pager = t.pager
        /\ root = t.root
        /\ pc = "open"
        /\ result = NoResult
        /\ last = [op |-> "open", row |-> NoRow, found |-> FALSE]
        /\ inserted = {t.root.cells[i].value : i \in 1..Len(t.root.cells)}
        /\ distinct = TRUE
        /\ closes = 0
        /\ ops = 0
        /\ dirty = FALSE
        /\ leaves = <<>>
        /\ call = NoCall
        /\ commits = NoCommits
        /\ codec = NoCodec

Init == \E f \in InitFiles : InitOn(f)

InsertedKeys == {r.id : r \in inserted}

\* insert <row>: Table::execute_statement with StatementType::Insert
\* an insert that writes the cache through to the file
Insert_write_through(row) ==
    /\ pc = "open"
    /\ LET s == BTree_find(row.id, root, pager, file)
       IN  IF s.panic
           THEN /\ pc' = "panicked"
                /\ result' = Panicked
                /\ last' = [op |-> "insert", row |-> row, found |-> FALSE]
                /\ UNCHANGED <<pager, root, inserted>>
           ELSE \E found \in s.results :
                   LET e == execute_insert(s.pager, file, s.node, row, found)
                   IN  /\ result' = e.result
                       /\ pager' = e.pager
                       /\ root' = e.root
                       /\ pc' = IF e.result = Panicked THEN "panicked" ELSE "open"
                       /\ last' = [op |-> "insert", row |-> row, found |-> found.ok]
                       /\ inserted' = IF e.result = InsertSuccess
                                      THEN inserted \cup {row} ELSE inserted
    /\ distinct' = (distinct /\ row.id \notin InsertedKeys)
    /\ ops' = ops + 1
    /\ dirty' = TRUE
    /\ file' = Pager_close(pager', file)
    /\ UNCHANGED <<closes, leaves, call, commits, codec>>

Insert(row) ==
    /\ pc = "open"
    /\ LET s == BTree_find(row.id, root, pager, file)
       IN  IF s.panic
           THEN /\ pc' = "panicked"
                /\ result' = Panicked
                /\ last' = [op |-> "insert", row |-> row, found |-> FALSE]
                /\ UNCHANGED <<pager, root, inserted>>
           ELSE \E found \in s.results :
                   LET e == execute_insert(s.pager, file, s.node, row, found)
                   IN  /\ result' = e.result
                       /\ pager' = e.pager
                       /\ root' = e.root
                       /\ pc' = IF e.result = Panicked THEN "panicked" ELSE "open"
                       /\ last' = [op |-> "insert", row |-> row, found |-> found.ok]
                       /\ inserted' = IF e.result = InsertSuccess
                                      THEN inserted \cup {row} ELSE inserted
    /\ distinct' = (distinct /\ row.id \notin InsertedKeys)
    /\ ops' = ops + 1
    /\ dirty' = TRUE
    /\ UNCHANGED <<file, closes, leaves, call, commits, codec>>

ExecuteInsert ==
    /\ ops < MaxOps
    /\ \E row \in InputRows : Insert(row)

\* select: Table::execute_statement with StatementType::Select
ExecuteSelect ==
    /\ pc = "open"
    /\ LET s == execute_select(pager, file, root)
       IN  /\ pager' = s.pager
           /\ result' = IF s.panic THEN Panicked ELSE SelectSuccess(s.rows)
           /\ pc' = IF s.panic THEN "panicked" ELSE "open"
    /\ last' = [op |-> "select", row |-> NoRow, found |-> FALSE]
    /\ UNCHANGED <<file, root, inserted, distinct, closes, ops, dirty, leaves, call, commits, codec>>

\* .exit: Table::close
Close ==
    /\ pc = "open"
    /\ closes < MaxCloses
    /\ file' = Pager_close(pager, file)
    /\ pc' = "closed"
    /\ result' = NoResult
    /\ last' = [op |-> "close", row |-> NoRow, found |-> FALSE]
    /\ closes' = closes + 1
    /\ UNCHANGED <<pager, root, inserted, distinct, ops, dirty, leaves, call, commits, codec>>

\* the program is started again on the file it left: Table::open
Reopen ==
    /\ pc = "closed"
    /\ LET t == Table_open(file)
       IN  /\ pager' = t.pager
           /\ root' = t.root
    /\ pc' = "open"
    /\ result' = NoResult
    /\ last' = [op |-> "open", row |-> NoRow, found |-> FALSE]
    /\ dirty' = FALSE
    /\ UNCHANGED <<file, inserted, distinct, closes, ops, leaves, call, commits, codec>>

Next == ExecuteInsert \/ ExecuteSelect \/ Close \/ Reopen

Spec == Init /\ [][Next]_vars

\* the same statements on a table opened on an existing file
InitExisting == \E f \in ExistingFiles : InitOn(f)

SpecExisting == InitExisting /\ [][Next]_vars

\* execute_insert of the rows of the keys in turn: [pager, root]
RECURSIVE InsertAll(_, _, _, _)
InsertAll(pgr, f, rt, keys) ==
    IF keys = <<>> THEN [pager |-> pgr, root |-> rt]
    ELSE LET s     == BTree_find(keys[1], rt, pgr, f)
             found == CHOOSE r \in s.results : TRUE
             e     == execute_insert(s.pager, f, s.node, RowOf(keys[1]), found)
         IN  InsertAll(e.pager, f, e.root, Tail(keys))

\* the file a session leaves that opens the file of 12 rows, inserts the
\* keys 5, 9, 8, 7, 6 and 4 (the root splits at the first, the others fill
\* the left leaf) and closes: one page, the left leaf with its 12 rows
LeftLeafFile ==
    LET f == PreloadFile(MAX_CELLS)
        t == Table_open(f)
        a == InsertAll(t.pager, f, t.root, <<5, 9, 8, 7, 6, 4>>)
    IN  Pager_close(a.pager, f)

\* The program started on the file an earlier session left
InitReopened == InitOn(LeftLeafFile)

SpecReopened == InitReopened /\ [][Next]_vars

\* One session on a fresh file that inserts distinct keys in descending
\* order, so that many leaves split
InsertDescending ==
    /\ ops < MaxDescending
    /\ Insert(RowOf(TopKey - ops))

InitDescending == InitOn(<<>>)

NextDescending == InsertDescending \/ ExecuteSelect

SpecDescending == InitDescending /\ [][NextDescending]_vars

-----------------------------------------------------------------------------
(* The Pager called directly: open on a file of any length, get_page of any *)
(* page number, close.  call records the last call: its argument, whether   *)
(* it panicked, the pager before and after, and the node it returned.       *)

\* bytes a file may have after its last whole page
TailBytes == {0, 1, PAGE_SIZE \div 2, PAGE_SIZE - 1}

PagerFiles == InitFiles \cup ExistingFiles

PagerOpen ==
    /\ pc = "closed"
    /\ ops < MaxCalls
    /\ ops' = ops + 1
    /\ \E d \in TailBytes :
          LET file_length == Len(file) * PAGE_SIZE + d
              o == Pager_open_len(file_length)
          IN  /\ pager' = IF o.panic THEN pager ELSE o.pager
              /\ pc' = IF o.panic THEN "panicked" ELSE "open"
              /\ call' = [op |-> "open", arg |-> file_length, panic |-> o.panic,
                          before |-> pager, after |-> pager', node |-> <<>>]
    /\ commits' = NoCommits
    /\ UNCHANGED <<file, root, result, last, inserted, distinct, closes,
                   dirty, leaves, codec>>

GetPage ==
    /\ pc = "open"
    /\ ops < MaxCalls
    /\ ops' = ops + 1
    /\ \E page_num \in 0..MaxOffset :
          LET g == get_page(pager, file, page_num)
          IN  /\ pager' = g.pager
              /\ call' = [op |-> "get_page", arg |-> page_num, panic |-> FALSE,
                          before |-> pager, after |-> g.pager, node |-> <<g.node>>]
    /\ UNCHANGED <<file, root, pc, result, last, inserted, distinct, closes,
                   dirty, leaves, commits, codec>>

PagerClose ==
    /\ pc = "open"
    /\ ops < MaxCalls
    /\ ops' = ops + 1
    /\ file' = Pager_close(pager, file)
    /\ pc' = "closed"
    /\ call' = [op |-> "close", arg |-> 0, panic |-> FALSE,
                before |-> pager, after |-> pager, node |-> <<>>]
    /\ UNCHANGED <<pager, root, result, last, inserted, distinct, closes,
                   dirty, leaves, commits, codec>>

\* the nodes the direct calls commit: a root leaf, a leaf below page 0, a
\* leaf that was never given a parent, an internal root over pages 2 and 1
CommitNodes ==
    { [leaf_with_children(<<KeyValuePair(10, RowOf(10)), KeyValuePair(20, RowOf(20))>>)
          EXCEPT !.is_root = TRUE],
      [leaf_with_children(<<KeyValuePair(30, RowOf(30))>>) EXCEPT !.parent_offset = 0],
      leaf_with_children(<<KeyValuePair(40, RowOf(40))>>),
      [insert_internal_child(internal, Child(20, 2, 1)).node EXCEPT !.is_root = TRUE] }

CommitPage ==
    /\ pc = "open"
    /\ ops < MaxCalls
    /\ ops' = ops + 1
    /\ \E page_num \in 0..MaxOffset, n0 \in CommitNodes :
          LET n == [n0 EXCEPT !.page_num = page_num]
          IN  /\ pager' = commit_page(pager, n)
              /\ commits' = CachePut(commits, page_num, n)
              /\ call' = [op |-> "commit_page", arg |-> page_num, panic |-> FALSE,
                          before |-> pager, after |-> pager', node |-> <<n>>]
    /\ UNCHANGED <<file, root, pc, result, last, inserted, distinct, closes,
                   dirty, leaves, codec>>

InitPager ==
    /\ file \in PagerFiles
    /\ pager = Pager_open(<<>>)
    /\ root = leaf
    /\ pc = "closed"
    /\ result = NoResult
    /\ last = [op |-> "open", row |-> NoRow, found |-> FALSE]
    /\ inserted = {}
    /\ distinct = TRUE
    /\ closes = 0
    /\ ops = 0
    /\ dirty = FALSE
    /\ leaves = <<>>
    /\ call = NoCall
    /\ commits = NoCommits
    /\ codec = NoCodec

NextPager == PagerOpen \/ GetPage \/ CommitPage \/ PagerClose

SpecPager == InitPager /\ [][NextPager]_vars

-----------------------------------------------------------------------------
(* The leaves of node.rs under a caller that routes a key by the separators *)
(* the splits handed up, stores the new leaf of a ParentSplit at a fresh    *)
(* offset and splices it into the sibling chain with set_next_leaf and      *)
(* set_last_leaf.  An entry of leaves is [sep, node]: the separator left of *)
(* the leaf (None for the first leaf) and the leaf.                         *)

\* the leaf a key belongs to: the last one whose separator is <= the key
RouteLeaf(ls, k) ==
    LET le == {i \in 1..Len(ls) : ls[i].sep # None /\ ls[i].sep <= k}
    IN  IF le = {} THEN 1 ELSE CHOOSE i \in le : \A j \in le : j <= i

\* the new leaf of a split stored and spliced after entry i
SpliceLeaf(ls, i, out) ==
    LET off      == Len(ls)
        new0     == [out.tree EXCEPT !.offset = off]
        old_next == get_next_leaf(out.node)
        old1     == set_next_leaf(out.node, off).node
        new1     == set_last_leaf(set_next_leaf(new0, old_next).node,
                                  out.node.offset).node
    IN  SubSeq(ls, 1, i - 1)
          \o <<[sep |-> ls[i].sep, node |-> old1],
                [sep |-> out.separator, node |-> new1]>>
          \o SubSeq(ls, i + 1, Len(ls))

NodeInsert(k) ==
    /\ LET i == RouteLeaf(leaves, k)
       IN  \E out \in insert_leaf(leaves[i].node, k, k) :
              /\ result' = [kind |-> out.result, rows |-> <<>>]
              /\ leaves' = IF out.result = "ParentSplit"
                           THEN SpliceLeaf(leaves, i, out)
                           ELSE [leaves EXCEPT ![i].node = out.node]
    /\ UNCHANGED <<file, pager, root, pc, last, inserted, distinct, closes, ops,
                   dirty, call, commits, codec>>

InsertLeaf == \E k \in 1..MaxNodeKey : NodeInsert(k)

InitNode ==
    LET t == Table_open(<<>>)
    IN  /\ file = <<>>
        /\ pager = t.pager
        /\ root = t.root
        /\ pc = "open"
        /\ result = NoResult
        /\ last = [op |-> "open", row |-> NoRow, found |-> FALSE]
        /\ inserted = {}
        /\ distinct = TRUE
        /\ closes = 0
        /\ ops = 0
        /\ dirty = FALSE
        /\ call = NoCall
        /\ commits = NoCommits
        /\ codec = NoCodec
        /\ leaves = <<[sep  |-> None,
                       node |-> node_leaf_with_children(
                                  [i \in 1..NodePreload |-> KeyValuePair(2 * i, 2 * i)])]>>

NextNode == InsertLeaf

SpecNode == InitNode /\ [][NextNode]_vars

-----------------------------------------------------------------------------
(* The page codec of page.rs, whose nodes are those of node.rs: a leaf has  *)
(* children, next_leaf and last_leaf, an internal node has separators and   *)
(* the offsets of its children.  A page is the page of pager.rs with the    *)
(* node type byte at NODE_TYPE_OFFSET.                                      *)

RIGHTMOST_CHILD_OFFSET == 10
INTERNAL_CHILDREN_OFFSET == RIGHTMOST_CHILD_OFFSET + 4
INTERNAL_CHILD_SIZE == 12

\* Node::internal_with_separators
node_internal_with_separators(keys, children) ==
    [is_root       |-> FALSE,
     separators    |-> keys,
     children      |-> children,
     parent_offset |-> None,
     num_cells     |-> 0,
     offset        |-> 0]

\* NodeType::Leaf(..) rather than NodeType::Internal(..)
node_is_leaf(n) == "next_leaf" \in DOMAIN n

\* Page::new of page.rs
page_new == [node_type |-> 0] @@ Page_new

\* internal child slot (from 1) of a page; bytes never written are zero
PageSlot(page, i) ==
    IF i <= Len(page.slots) THEN page.slots[i]
    ELSE [left |-> 0, key |-> 0, right |-> 0]

\* impl From<&Node<usize, Row>> for Page
page_from_node(value) ==
    LET head == [page_new EXCEPT
                    !.is_root   = IF value.is_root THEN 1 ELSE 0,
                    !.parent    = IF value.parent_offset # None
                                  THEN value.parent_offset ELSE 0,
                    !.num_cells = value.num_cells]
    IN  IF node_is_leaf(value)
        THEN [head EXCEPT
                !.node_type = 0,
                !.cells = [i \in 1..Len(value.children) |->
                             [key   |-> value.children[i].key,
                              value |-> RowSerialize(value.children[i].value)]]]
        ELSE [head EXCEPT
                !.node_type = 1,
                !.rightmost = Len(value.children) - 1,
                !.slots = [i \in 1..Min(Len(value.separators), Len(value.children) - 1) |->
                             [left  |-> value.children[i],
                              key   |-> value.separators[i],
                              right |-> value.children[i + 1]]]]

\* the children after the loop body of slots slot, slot + 1, ... (from 0):
\* children.insert(slot, left); children.insert(slot + 1, right)
RECURSIVE decode_children(_, _, _, _)
decode_children(page, slot, rightmost, children) ==
    IF slot >= rightmost THEN children
    ELSE decode_children(page, slot + 1, rightmost,
            VecInsert(VecInsert(children, slot, PageSlot(page, slot + 1).left),
                      slot + 1, PageSlot(page, slot + 1).right))

\* impl From<&Page> for Node<usize, Row>: [panic, node]; reading a slot that
\* ends beyond the page panics (slice index out of range)
node_from_page(page) ==
    LET is_root == page.is_root = 1
        parent  == IF is_root THEN None ELSE page.parent
    IN  IF page.node_type = 0
        THEN [panic |-> FALSE,
              node  |-> [node_leaf EXCEPT
                           !.is_root = is_root,
                           !.parent_offset = parent,
                           !.num_cells = page.num_cells,
                           !.children =
                               [i \in 1..Min(page.num_cells, 12) |->
                                   KeyValuePair(PageCell(page, i).key,
                                                RowDeserialize(PageCell(page, i).value))]]]
        ELSE LET rightmost == page.rightmost
             IN  IF INTERNAL_CHILDREN_OFFSET + rightmost * INTERNAL_CHILD_SIZE > PAGE_SIZE
                 THEN [panic |-> TRUE, node |-> node_leaf]
                 ELSE [panic |-> FALSE,
                       node  |-> [node_internal_with_separators(
                                     [slot \in 1..rightmost |->
                                         INTERNAL_CHILDREN_OFFSET
                                           + (slot - 1) * INTERNAL_CHILD_SIZE + 4],
                                     decode_children(page, 0, rightmost, <<>>))
                                  EXCEPT !.is_root = is_root,
                                         !.parent_offset = parent,
                                         !.num_cells = page.num_cells]]

-----------------------------------------------------------------------------
(* The conversions applied directly: a node is encoded to a page and the    *)
(* page decoded, by pager.rs or by page.rs.                                 *)

\* the elements of a set of numbers in ascending order
RECURSIVE Ascending(_)
Ascending(S) ==
    IF S = {} THEN <<>>
    ELSE LET m == CHOOSE x \in S : \A y \in S : x <= y
         IN  <<m>> \o Ascending(S \ {m})

\* keys of the cells and separators of the nodes that are converted
CodecKeys == {10, 18, 30}

\* sorted cells: none, some, and a full leaf
CodecCells ==
    {[i \in 1..Len(Ascending(K)) |->
         KeyValuePair(Ascending(K)[i], RowOf(Ascending(K)[i]))] : K \in SUBSET CodecKeys}
      \cup {[i \in 1..MAX_LEAF_NODES |-> KeyValuePair(BaseKey(i), RowOf(BaseKey(i)))]}

\* a node as the root, or below page 0 or page MaxOffset
Placed(n) ==
    {[n EXCEPT !.is_root = TRUE]}
      \cup {[n EXCEPT !.parent_offset = p] : p \in {0, MaxOffset}}

\* valid nodes of btree.rs: leaves, and internal nodes whose children are
\* fetched or not
BTreeNodes ==
    UNION {Placed(leaf_with_children(c)) : c \in CodecCells}
      \cup UNION {Placed(insert_internal_child(internal, ch).node) :
                    ch \in {Child(k, 2, 1) : k \in CodecKeys}
                          \cup {[key   |-> k,
                                 left  |-> Fetched([leaf EXCEPT !.page_num = 2]),
                                 right |-> Fetched([leaf EXCEPT !.page_num = 1])] :
                                k \in CodecKeys}}

\* a leaf with each choice of siblings: none, page 1, page 2
Linked(n) ==
    {[n EXCEPT !.next_leaf = a, !.last_leaf = b] : a, b \in {None, 1, 2}}

\* valid nodes of node.rs: leaves with and without siblings, and internal
\* nodes of one or two separators
PageNodes ==
    UNION {Linked(n) : n \in UNION {Placed(node_leaf_with_children(c)) : c \in CodecCells}}
      \cup UNION {Placed(node_internal_with_separators(<<k>>, <<2, 1>>)) : k \in CodecKeys}
      \cup Placed(node_internal_with_separators(<<10, 30>>, <<2, 1, 3>>))

Revisions == {"pager.rs", "page.rs"}

EncodeNode ==
    /\ codec.step = "none"
    /\ \E rev \in Revisions :
          \E n \in IF rev = "pager.rs" THEN BTreeNodes ELSE PageNodes :
             codec' = [what |-> "node", rev |-> rev, step |-> "encoded",
                       input |-> <<n>>,
                       bytes |-> <<IF rev = "pager.rs" THEN Encode(n)
                                   ELSE page_from_node(n)>>,
                       output |-> <<>>, panic |-> FALSE]
    /\ UNCHANGED <<file, pager, root, pc, result, last, inserted, distinct, closes,
                   ops, dirty, leaves, call, commits>>

\* pages no encoder writes: a leaf count above MAX_LEAF_NODES, and for
\* page.rs a node type byte that is neither 0 nor 1 and an internal page of
\* more than MAX_INTERNAL_NODES separators
MalformedPages(rev) ==
    IF rev = "pager.rs"
    THEN {[Encode(leaf_with_children(c)) EXCEPT !.num_cells = k] :
             c \in CodecCells, k \in {MAX_LEAF_NODES + 1, 200}}
    ELSE {[page_from_node(node_leaf_with_children(c)) EXCEPT !.num_cells = k] :
             c \in CodecCells, k \in {MAX_LEAF_NODES + 1, 200}}
           \cup {[page_from_node(n) EXCEPT !.node_type = t] :
                    n \in PageNodes, t \in {2, 255}}
           \cup {[page_from_node(node_internal_with_separators(<<k>>, <<2, 1>>))
                     EXCEPT !.rightmost = MAX_INTERNAL_NODES + 1] : k \in CodecKeys}

\* a page read from a file
LoadPage ==
    /\ codec.step = "none"
    /\ \E rev \in Revisions :
          \E page \in MalformedPages(rev) :
             codec' = [what |-> "page", rev |-> rev, step |-> "encoded",
                       input |-> <<>>, bytes |-> <<page>>,
                       output |-> <<>>, panic |-> FALSE]
    /\ UNCHANGED <<file, pager, root, pc, result, last, inserted, distinct, closes,
                   ops, dirty, leaves, call, commits>>

\* n bytes: the letters A, B, C, ... in turn
Letters(n) == [i \in 1..n |-> 65 + (i % 26)]

\* the two bytes of the letter e with an acute accent
EAcute == <<195, 169>>

\* usernames of 0, 7, 32, 33 and 40 bytes, and two that end in a letter of
\* two bytes, at bytes 31-32 and at bytes 32-33
CodecUsernames ==
    {Letters(n) : n \in {0, 7, USERNAME_SIZE, USERNAME_SIZE + 1, USERNAME_SIZE + 8}}
      \cup {Letters(USERNAME_SIZE - 2) \o EAcute, Letters(USERNAME_SIZE - 1) \o EAcute}

\* emails of 0, 3 and 255 bytes
CodecEmails == {<<>>, <<97, 64, 98>>, Letters(EMAIL_SIZE), Letters(EMAIL_SIZE - 1) \o <<64>>}

CodecRows ==
    {Row(id, u, e) : id \in {0, 1, 258, 70000}, u \in CodecUsernames, e \in CodecEmails}

SerializeRow ==
    /\ codec.step = "none"
    /\ \E r \in CodecRows :
          codec' = [what |-> "row", rev |-> "datastore.rs", step |-> "encoded",
                    input |-> <<r>>, bytes |-> serialize(r),
                    output |-> <<>>, panic |-> FALSE]
    /\ UNCHANGED <<file, pager, root, pc, result, last, inserted, distinct, closes,
                   ops, dirty, leaves, call, commits>>

DeserializeRow ==
    /\ codec.what = "row"
    /\ codec.step = "encoded"
    /\ LET d == deserialize(codec.bytes)
       IN  codec' = [codec EXCEPT !.step = "decoded",
                                  !.output = IF d.panic THEN <<>> ELSE <<d.row>>,
                                  !.panic = d.panic]
    /\ UNCHANGED <<file, pager, root, pc, result, last, inserted, distinct, closes,
                   ops, dirty, leaves, call, commits>>

DecodePage ==
    /\ codec.what \in {"node", "page"}
    /\ codec.step = "encoded"
    /\ LET d == IF codec.rev = "pager.rs"
                THEN [panic |-> FALSE, node |-> Decode(codec.bytes[1])]
                ELSE node_from_page(codec.bytes[1])
       IN  codec' = [codec EXCEPT !.step = "decoded",
                                  !.output = IF d.panic THEN <<>> ELSE <<d.node>>,
                                  !.panic = d.panic]
    /\ UNCHANGED <<file, pager, root, pc, result, last, inserted, distinct, closes,
                   ops, dirty, leaves, call, commits>>

InitCodec == InitOn(<<>>)

NextCodec == EncodeNode \/ LoadPage \/ DecodePage \/ SerializeRow \/ DeserializeRow

SpecCodec == InitCodec /\ [][NextCodec]_vars

-----------------------------------------------------------------------------
(* Internal nodes, node.rs *)

\* Node::internal
node_internal == node_internal_with_separators(<<>>, <<>>)

\* Node::insert_internal_child: [panic, ok, node]; a separator that is
\* already stored panics, and so does Vec::insert past the end of children
node_insert_internal_child(n, key, right) ==
    LET hits  == {i \in 1..Len(n.separators) : n.separators[i] = key}
        index == Cardinality({i \in 1..Len(n.separators) : n.separators[i] < key})
    IN  IF hits # {} \/ index > MAX_INTERNAL_NODES \/ index + 1 > Len(n.children)
        THEN [panic |-> TRUE, ok |-> FALSE, node |-> n]
        ELSE [panic |-> FALSE,
              ok    |-> TRUE,
              node  |-> [n EXCEPT !.separators = VecInsert(n.separators, index, key),
                                  !.children = VecInsert(n.children, index + 1, right)]]

\* internal nodes of 0 to MaxSeparators ascending separators with one child
\* more, and the node Node::internal builds
InternalNodes ==
    {node_internal}
      \cup {node_internal_with_separators(Ascending({10 * i : i \in S}),
                                          [j \in 1..(Cardinality(S) + 1) |-> j]) :
              S \in SUBSET (1..MaxSeparators)}

\* a separator and the offset of the node right of it are inserted
InsertInternalChild ==
    /\ codec.step = "none"
    /\ \E n \in InternalNodes :
          \E key \in {5 * i : i \in 1..(2 * MaxSeparators + 1)} :
             \E right \in {MaxSeparators + 2, MaxSeparators + 3} :
                LET r == node_insert_internal_child(n, key, right)
                IN  codec' = [what |-> "insert_internal_child", rev |-> "node.rs",
                              step |-> "called", input |-> <<n, key, right>>,
                              bytes |-> <<>>,
                              output |-> IF r.panic THEN <<>> ELSE <<r.node>>,
                              panic |-> r.panic]
    /\ UNCHANGED <<file, pager, root, pc, result, last, inserted, distinct, closes,
                   ops, dirty, leaves, call, commits>>

InitInternal == InitOn(<<>>)

NextInternal == InsertInternalChild

SpecInternal == InitInternal /\ [][NextInternal]_vars

-----------------------------------------------------------------------------
(* Helpers of the properties *)

KeysOf(cells) == {cells[i].key : i \in 1..Len(cells)}

RowKeys(rows) == [i \in 1..Len(rows) |-> rows[i].id]

StrictlyIncreasing(ks) == \A i \in 1..(Len(ks) - 1) : ks[i] < ks[i + 1]

\* the rows of a set in ascending key order
RECURSIVE SortedRows(_)
SortedRows(S) ==
    IF S = {} THEN <<>>
    ELSE LET r == CHOOSE x \in S : \A y \in S : x.id <= y.id
         IN  <<r>> \o SortedRows(S \ {r})

\* the node last committed at an offset is internal when its page carries
\* child slots
IsInternalPage(page) == page.slots # <<>>

\* the depths of the leaves reachable from offset o through child slots
RECURSIVE LeafDepths(_, _, _)
LeafDepths(cache, o, d) ==
    IF o \notin DOMAIN cache \/ ~IsInternalPage(cache[o]) THEN {d}
    ELSE UNION {LeafDepths(cache, cache[o].slots[i].left, d + 1)
                  \cup LeafDepths(cache, cache[o].slots[i].right, d + 1) :
                    i \in 1..Len(cache[o].slots)}

Height(cache) == CHOOSE d \in LeafDepths(cache, 0, 0) :
                    \A e \in LeafDepths(cache, 0, 0) : e <= d

InsertStep == ops' = ops + 1

-----------------------------------------------------------------------------
(* Properties *)

\* C1: after any sequence of inserts into a table opened on a fresh file,
\* select returns rows in strictly increasing key order, holding each
\* successfully inserted key exactly once and no other row.
C1_OrderedScan ==
    last.op = "select" =>
        /\ result.kind = "SelectSuccess"
        /\ StrictlyIncreasing(RowKeys(result.rows))
        /\ {result.rows[i].id : i \in 1..Len(result.rows)} = InsertedKeys
        /\ \A i \in 1..Len(result.rows) : result.rows[i] \in inserted

\* C2: in every reachable state, also after leaf splits, the insert of a row
\* whose key is already stored returns DuplicateKey and leaves the pager
\* cache, num_pages, the in-memory nodes and the file as they were.
C2_DuplicateRejected ==
    [][(InsertStep /\ last'.row.id \in InsertedKeys) =>
            /\ result' = DuplicateKey
            /\ pager' = pager
            /\ root' = root
            /\ file' = file]_vars

\* the keys find is probed with
ProbeKeys == InsertedKeys \cup Keys \cup {TopKey - ops, TopKey + 1}

\* the leaf the pager holds at a cursor's page
LeafAt(c) == get_page(pager, file, c.page_num).node

\* C3: find(k) returns Ok exactly when a row with key k has been inserted;
\* an Ok cursor addresses a cell that holds k, an Err cursor names the leaf
\* and the sorted index at which k would have to be inserted.
C3_FindIffInserted ==
    pc = "open" =>
        \A k \in ProbeKeys :
            LET s == BTree_find(k, root, pager, file)
            IN  /\ ~s.panic
                /\ \A r \in s.results :
                    /\ r.ok <=> k \in InsertedKeys
                    /\ r.ok => /\ r.cursor.cell_num < Len(LeafAt(r.cursor).cells)
                               /\ LeafAt(r.cursor).cells[r.cursor.cell_num + 1].key = k
                    /\ ~r.ok => r.cursor.cell_num =
                                  Cardinality({i \in 1..Len(LeafAt(r.cursor).cells) :
                                                 LeafAt(r.cursor).cells[i].key < k})

\* C4: for inserts of distinct keys, close followed by opening the same
\* file yields on select the row sequence select gave just before close.
C4_RoundTrip ==
    [][(pc = "closed" /\ pc' = "open" /\ distinct) =>
            /\ ~execute_select(pager', file', root').panic
            /\ execute_select(pager', file', root').rows
                 = execute_select(pager, file, root).rows]_vars

\* a full root leaf is about to take a key it does not hold
FullRootLeafInsert ==
    /\ pc = "open"
    /\ root.kind = "Leaf"
    /\ root.is_root
    /\ root.num_cells = MAX_CELLS
    /\ InsertStep
    /\ last'.row.id \notin KeysOf(root.cells)

\* C5: up to 12 distinct keys inserted in any order into a table on a fresh
\* file all return InsertSuccess, the tree stays one root leaf at offset 0,
\* and select returns the rows in ascending key order.
C5_SingleLeaf ==
    (pc = "open" /\ distinct /\ Cardinality(inserted) <= MAX_CELLS) =>
        /\ root.kind = "Leaf"
        /\ root.is_root
        /\ root.page_num = 0
        /\ pager.num_pages = 1
        /\ DOMAIN pager.page_cache = {0}
        /\ Decode(pager.page_cache[0]).cells = root.cells
        /\ RowKeys([i \in 1..Len(root.cells) |-> root.cells[i].value])
             = [i \in 1..Len(root.cells) |-> root.cells[i].key]
        /\ last.op = "insert" => result = InsertSuccess
        /\ last.op = "select" => result = SelectSuccess(SortedRows(inserted))
        /\ ~execute_select(pager, file, root).panic
        /\ execute_select(pager, file, root).rows = SortedRows(inserted)

C5_Witness ==
    /\ pc = "open"
    /\ distinct
    /\ ops >= 1
    /\ Cardinality(inserted) = MAX_CELLS
    /\ last.op = "select"
    /\ Len(result.rows) = MAX_CELLS

C7_FullLeafTableFull ==
    [][FullRootLeafInsert => result' = TableFull]_vars

\* C8: TableFull is returned only when the insert would need a page beyond
\* the cap of 100 pages, the insert then changes nothing, and num_pages
\* never exceeds 100.
C8_PageCap ==
    /\ pager.num_pages <= TABLE_MAX_PAGES
    /\ (last.op = "insert" /\ result = TableFull) =>
            /\ pager.num_pages = TABLE_MAX_PAGES
            /\ last.row \notin inserted

\* C9: the tree's root is the node at offset 0 and no other node has
\* is_root set.
C9_RootAtZero ==
    pc = "open" =>
        /\ root.page_num = 0
        /\ root.is_root
        /\ 0 \in DOMAIN pager.page_cache
        /\ pager.page_cache[0].is_root = 1
        /\ \A o \in DOMAIN pager.page_cache \ {0} : pager.page_cache[o].is_root = 0
        /\ \A i \in 1..Len(root.children) :
              /\ root.children[i].left.fetched => ~root.children[i].left.node.is_root
              /\ root.children[i].right.fetched => ~root.children[i].right.node.is_root

\* C10: all leaves are at the same depth, and the height grows, by exactly
\* one, only when the root splits; the split of a non-root leaf changes no
\* leaf's depth.
C10_Balanced ==
    [][pc' = "open" =>
        /\ Cardinality(LeafDepths(pager'.page_cache, 0, 0)) = 1
        /\ (pc = "open" /\ Height(pager'.page_cache) # Height(pager.page_cache)) =>
                /\ Height(pager'.page_cache) = Height(pager.page_cache) + 1
                /\ root.kind = "Leaf"
                /\ root'.kind = "Internal"]_vars

\* the keys stored in the leaves below offset o
RECURSIVE KeysUnder(_, _)
KeysUnder(cache, o) ==
    IF o \notin DOMAIN cache THEN {}
    ELSE IF IsInternalPage(cache[o])
    THEN UNION {KeysUnder(cache, cache[o].slots[i].left)
                  \cup KeysUnder(cache, cache[o].slots[i].right) :
                    i \in 1..Len(cache[o].slots)}
    ELSE KeysOf(cache[o].cells)

\* the leaf copies the tree holds in memory: the root handle, if a leaf, and
\* the Fetched children of an internal root
MemoryLeaves ==
    IF root.kind = "Leaf" THEN {root}
    ELSE UNION {{c[side].node : side \in {s \in {"left", "right"} :
                                    c[s].fetched /\ c[s].node.kind = "Leaf"}} :
                c \in {root.children[i] : i \in 1..Len(root.children)}}

\* C11: after every completed insert every leaf holds at most 12 rows and
\* every non-root leaf holds at least one row.
C11_LeafCounts ==
    pc = "open" =>
        /\ \A o \in DOMAIN pager.page_cache :
              LET p == pager.page_cache[o]
              IN  ~IsInternalPage(p) =>
                    /\ p.num_cells <= MAX_CELLS
                    /\ Len(p.cells) <= MAX_CELLS
                    /\ p.is_root = 0 => (p.num_cells >= 1 /\ Len(p.cells) >= 1)
        /\ \A n \in MemoryLeaves :
              /\ Len(n.cells) <= MAX_CELLS
              /\ n.num_cells <= MAX_CELLS
              /\ ~n.is_root => Len(n.cells) >= 1

C11_Witness ==
    /\ pc = "open"
    /\ last.op = "insert"
    /\ result = InsertSuccess
    /\ pager.num_pages >= 5
    /\ \E o \in DOMAIN pager.page_cache :
          o # 0 /\ IsInternalPage(pager.page_cache[o])

\* C12: after every completed insert the keys of each leaf are strictly
\* ascending by cell index, also in the two leaves a split produces and for
\* the key inserted during the split.
C12_LeafSorted ==
    pc = "open" =>
        /\ \A o \in DOMAIN pager.page_cache :
              ~IsInternalPage(pager.page_cache[o]) =>
                  StrictlyIncreasing([i \in 1..Len(pager.page_cache[o].cells) |->
                                        pager.page_cache[o].cells[i].key])
        /\ \A n \in MemoryLeaves :
              StrictlyIncreasing([i \in 1..Len(n.cells) |-> n.cells[i].key])

\* C13: after every completed insert every internal node has S separators
\* and S + 1 children with 1 <= S <= 511, ascending separators, every key
\* under child i below separator i and every key under child i + 1 at or
\* above it.
C13_InternalOrder ==
    pc = "open" =>
        \A o \in DOMAIN pager.page_cache :
            LET p == pager.page_cache[o]
            IN  IsInternalPage(p) =>
                  /\ Len(p.slots) >= 1
                  /\ Len(p.slots) <= MAX_INTERNAL_NODES
                  /\ p.rightmost = Len(p.slots) - 1
                  /\ StrictlyIncreasing([i \in 1..Len(p.slots) |-> p.slots[i].key])
                  /\ \A i \in 1..Len(p.slots) :
                        /\ \A k \in KeysUnder(pager.page_cache, p.slots[i].left) :
                              k < p.slots[i].key
                        /\ \A k \in KeysUnder(pager.page_cache, p.slots[i].right) :
                              k >= p.slots[i].key

\* the entry of leaves stored at an offset
LeafAtOffset(off) ==
    (CHOOSE e \in {leaves[i] : i \in 1..Len(leaves)} : e.node.offset = off).node

\* the offsets met by following next_leaf from off, at most fuel of them
RECURSIVE LeafChain(_, _)
LeafChain(off, fuel) ==
    IF off = None \/ fuel = 0 THEN <<>>
    ELSE <<off>> \o LeafChain(get_next_leaf(LeafAtOffset(off)), fuel - 1)

\* C14: following next_leaf from the leftmost leaf visits every leaf of the
\* tree exactly once, in ascending key order, and ends at a leaf without
\* next_leaf.
C14_LeafChain ==
    leaves # <<>> =>
        LeafChain(leaves[1].node.offset, Len(leaves) + 1)
            = [i \in 1..Len(leaves) |-> leaves[i].node.offset]

\* a step of Table::close
CloseStep == pc = "open" /\ pc' = "closed"

\* C15: close writes every cached page i < num_pages at byte offset
\* i * PAGE_SIZE of the file and leaves the pages it has not cached as they
\* were.
C15_CloseOffsets ==
    [][CloseStep =>
         /\ \A i \in DOMAIN pager.page_cache :
               i < pager.num_pages =>
                  /\ Len(file') * PAGE_SIZE >= (i + 1) * PAGE_SIZE
                  /\ FileRead(file', i) = pager.page_cache[i]
         /\ \A i \in 0..(Len(file) - 1) :
               ~Cached(pager, i) =>
                  /\ Len(file') > i
                  /\ FileRead(file', i) = FileRead(file, i)]_vars

\* C16: after close the length of the file is a multiple of PAGE_SIZE and
\* equals PAGE_SIZE times the number of pages allocated (one page for a
\* single leaf, three pages after the first split).
C16_FileLength ==
    pc = "closed" =>
        /\ (Len(file) * PAGE_SIZE) % PAGE_SIZE = 0
        /\ Len(file) * PAGE_SIZE = pager.num_pages * PAGE_SIZE

\* C17: between open and close no operation changes the file; close is the
\* only operation that writes it.
C17_OnlyCloseWrites == [][~CloseStep => file' = file]_vars

\* an insert and a select have run on an open table whose cache has pages
\* the file lacks
C17_Witness ==
    /\ pc = "open"
    /\ dirty
    /\ last.op = "select"
    /\ result.kind = "SelectSuccess"
    /\ pager.num_pages > Len(file)
    /\ \E o \in DOMAIN pager.page_cache : FileRead(file, o) # pager.page_cache[o]

\* C18: a table opened on an existing file and closed with no insert in
\* between (selects allowed) leaves the bytes and the length of the file as
\* they were.
C18_CloseWithoutInsert ==
    [][CloseStep /\ ~dirty => file' = file /\ Len(file') * PAGE_SIZE = Len(file) * PAGE_SIZE]_vars

\* an existing file closed after a select and no insert
C18_Witness ==
    /\ pc = "closed"
    /\ ~dirty
    /\ ops = 0
    /\ file = SplitFile
    /\ DOMAIN pager.page_cache = {0}

\* C19: Pager::open fails, reporting a corrupt file, when the length of the
\* file is not a multiple of PAGE_SIZE; otherwise it gives a pager with
\* num_pages = length / PAGE_SIZE and an empty cache.
C19_OpenLength ==
    call.op = "open" =>
        IF call.arg % PAGE_SIZE # 0
        THEN call.panic /\ pc = "panicked"
        ELSE /\ ~call.panic
             /\ pc = "open"
             /\ pager.num_pages * PAGE_SIZE = call.arg
             /\ DOMAIN pager.page_cache = {}

\* an open of a file of three pages and some bytes has failed
C19_Witness ==
    /\ call.op = "open"
    /\ call.panic
    /\ call.arg > 3 * PAGE_SIZE

\* a get_page of a page number that was not cached and not below num_pages
NewPageCall ==
    /\ call.op = "get_page"
    /\ ~Cached(call.before, call.arg)
    /\ call.arg >= call.before.num_pages

ChildOffsets(n) ==
    [i \in 1..Len(n.children) |->
        <<n.children[i].left.page, n.children[i].key, n.children[i].right.page>>]

\* two nodes agree in kind, is_root, parent, count and cells or children
SameNode(a, b) ==
    /\ a.kind = b.kind
    /\ a.is_root = b.is_root
    /\ a.parent_offset = b.parent_offset
    /\ a.num_cells = b.num_cells
    /\ a.cells = b.cells
    /\ ChildOffsets(a) = ChildOffsets(b)

\* C21: after commit_page(n) every later get_page of n's offset returns a
\* node equal to n (kind, is_root, parent, count, cells or children) until
\* another node is committed there; the last node committed at an offset
\* wins, and a commit leaves the cached pages of the other offsets unchanged.
C21_CommitThenGet ==
    /\ (call.op = "get_page" /\ call.arg \in DOMAIN commits)
          => SameNode(call.node[1], commits[call.arg])
    /\ call.op = "commit_page"
          => \A o \in DOMAIN call.before.page_cache \ {call.arg} :
                /\ Cached(call.after, o)
                /\ call.after.page_cache[o] = call.before.page_cache[o]

\* C22: a commit of a node whose offset equals num_pages raises num_pages to
\* that offset + 1, so that every cached offset is below num_pages and is
\* written by close.
C22_CommitRaisesNumPages ==
    /\ (call.op = "commit_page" /\ call.arg = call.before.num_pages)
          => call.after.num_pages = call.arg + 1
    /\ \A o \in DOMAIN pager.page_cache : o < pager.num_pages

\* two nodes of node.rs agree in kind, is_root, parent, count and children
\* (and separators)
SamePageNode(a, b) ==
    /\ node_is_leaf(a) = node_is_leaf(b)
    /\ a.is_root = b.is_root
    /\ a.parent_offset = b.parent_offset
    /\ a.num_cells = b.num_cells
    /\ a.children = b.children
    /\ ~node_is_leaf(a) /\ ~node_is_leaf(b) => a.separators = b.separators

\* a valid node was encoded and the page decoded
NodeDecoded == codec.what = "node" /\ codec.step = "decoded"

\* C23: decoding is the inverse of encoding: for every valid node n (a leaf
\* of at most 12 sorted cells, or an internal node of S <= 511 separators and
\* S + 1 children) decode(encode(n)) has the kind, is_root, parent offset,
\* count, keys and rows, or separators and child offsets, of n.
C23_DecodeEncode ==
    NodeDecoded =>
        /\ ~codec.panic
        /\ IF codec.rev = "pager.rs"
           THEN SameNode(codec.output[1], codec.input[1])
           ELSE SamePageNode(codec.output[1], codec.input[1])

\* C24: the prev_leaf (last_leaf) and next_leaf offsets of a leaf survive
\* encode followed by decode, an absent sibling staying absent.
C24_SiblingsSurvive ==
    (NodeDecoded /\ codec.rev = "page.rs" /\ node_is_leaf(codec.input[1])) =>
        /\ ~codec.panic
        /\ node_is_leaf(codec.output[1])
        /\ get_next_leaf(codec.output[1]) = get_next_leaf(codec.input[1])
        /\ get_last_leaf(codec.output[1]) = get_last_leaf(codec.input[1])

\* C25: decoding a page fails with CorruptFile, and yields no node, when the
\* kind byte is neither 0 nor 1, when the cell count of a leaf exceeds 12, or
\* when the separator count of an internal node exceeds 511.
C25_MalformedRejected ==
    (codec.what = "page" /\ codec.step = "decoded") =>
        codec.panic /\ codec.output = <<>>

\* C26: Row::serialize always gives exactly 291 bytes; deserialize of the
\* serialized row is the row when its username has at most 32 bytes and its
\* email at most 255 (no NUL in either); a longer username is cut to its
\* first 32 bytes, id and email preserved.
C26_RowRoundTrip ==
    codec.what = "row" =>
        /\ Len(codec.bytes) = ROW_SIZE
        /\ codec.step = "decoded" =>
              LET r == codec.input[1]
              IN  /\ ~codec.panic
                  /\ codec.output =
                        <<Row(r.id, Take(r.username, USERNAME_SIZE), r.email)>>


-----------------------------------------------------------------------------
(* Cursors over the stored tree *)

\* the page the pager answers with at each offset: the cached page, else the
\* page of the file
StoredPages(pgr, f) ==
    [o \in DOMAIN pgr.page_cache \cup 0..(Len(f) - 1) |->
        IF o \in DOMAIN pgr.page_cache THEN pgr.page_cache[o] ELSE FileRead(f, o)]

\* the offsets of the leaves under page o from child slot i on, left to right
RECURSIVE LeafOffsets(_, _, _)
LeafOffsets(pages, o, i) ==
    IF o \notin DOMAIN pages THEN <<>>
    ELSE IF ~IsInternalPage(pages[o]) THEN <<o>>
    ELSE IF i > Len(pages[o].slots) THEN <<>>
    ELSE LeafOffsets(pages, pages[o].slots[i].left, 1)
           \o LeafOffsets(pages, pages[o].slots[i].right, 1)
           \o LeafOffsets(pages, o, i + 1)

\* the leaf that follows leaf o in key order, None after the last one
NextLeaf(pages, o) ==
    LET lo == LeafOffsets(pages, 0, 1)
        at == {i \in 1..Len(lo) : lo[i] = o}
    IN  IF at = {} THEN None
        ELSE LET i == CHOOSE j \in at : TRUE
             IN  IF i < Len(lo) THEN lo[i + 1] ELSE None

\* the cursor's page is a leaf of the tree
OnLeaf(pages, c) ==
    /\ c.page_num \in DOMAIN pages
    /\ ~IsInternalPage(pages[c.page_num])
    /\ \E i \in 1..Len(LeafOffsets(pages, 0, 1)) :
          LeafOffsets(pages, 0, 1)[i] = c.page_num

\* the cursor addresses a cell its leaf holds
OnCell(pages, c) ==
    OnLeaf(pages, c) /\ c.cell_num < Len(pages[c.page_num].cells)

\* the cursors find returns for the probed keys
FoundCursors ==
    UNION {LET s == BTree_find(k, root, pager, file)
           IN  IF s.panic THEN {} ELSE s.results : k \in ProbeKeys}

\* a cursor and the cursors advance makes of it until end_of_table
RECURSIVE Advances(_, _)
Advances(c, rt) ==
    IF c.end_of_table THEN {c} ELSE {c} \cup Advances(Cursor_advance(c, rt), rt)

\* the cursors find, scan start and advance produce
ProducedCursors ==
    UNION {Advances(c, root) :
             c \in {Cursor_start(root)} \cup {r.cursor : r \in FoundCursors}}

\* C27: advance moves a cursor to the next cell of its leaf; from the last
\* cell of a leaf it moves to cell 0 of the next leaf, and it sets
\* end_of_table only when there is no next leaf.
C27_AdvanceFollowsLeaves ==
    pc = "open" =>
        LET pages == StoredPages(pager, file)
        IN  \A c \in ProducedCursors :
              (~c.end_of_table /\ OnCell(pages, c)) =>
                  LET a    == Cursor_advance(c, root)
                      next == NextLeaf(pages, c.page_num)
                  IN  IF c.cell_num + 1 < Len(pages[c.page_num].cells)
                      THEN a = Cursor(c.page_num, c.cell_num + 1, FALSE)
                      ELSE IF next # None
                      THEN a = Cursor(next, 0, FALSE)
                      ELSE a.end_of_table

\* C28: the scan start cursor is at cell 0 of the leftmost leaf, and its
\* end_of_table flag is set exactly when the table holds no rows.
C28_StartLeftmost ==
    pc = "open" =>
        LET pages == StoredPages(pager, file)
            lo    == LeafOffsets(pages, 0, 1)
            c     == Cursor_start(root)
        IN  /\ c.cell_num = 0
            /\ lo # <<>>
            /\ c.page_num = lo[1]
            /\ c.end_of_table <=> (KeysUnder(pages, 0) = {})

\* C29: a cursor made by find, scan start or advance has end_of_table set
\* exactly when its cell index is past the last cell of a leaf that has no
\* next leaf; an Ok cursor of find never has it set.
C29_EndOfTable ==
    pc = "open" =>
        LET pages == StoredPages(pager, file)
        IN  /\ \A c \in ProducedCursors :
                  c.end_of_table <=>
                      /\ OnLeaf(pages, c)
                      /\ NextLeaf(pages, c.page_num) = None
                      /\ c.cell_num >= Len(pages[c.page_num].cells)
            /\ \A r \in FoundCursors : r.ok => ~r.cursor.end_of_table



\* the keys of a node.rs leaf, by cell index
LeafKeys(n) == [i \in 1..Len(n.children) |-> n.children[i].key]

\* what insert_leaf(k, k) has to leave behind on the leaf that takes k
InsertLeafPost(k) ==
    LET i    == RouteLeaf(leaves, k)
        n    == leaves[i].node
        keys == {n.children[j].key : j \in 1..Len(n.children)}
    IN  (StrictlyIncreasing(LeafKeys(n)) /\ Len(n.children) <= MAX_LEAF_NODES) =>
          IF k \in keys
          THEN /\ result'.kind = "DuplicateKey"
               /\ leaves' = leaves
          ELSE IF Len(n.children) < MAX_LEAF_NODES
          THEN /\ result'.kind = "Success"
               /\ Len(leaves') = Len(leaves)
               /\ LeafKeys(leaves'[i].node) = Ascending(keys \cup {k})
          ELSE /\ result'.kind = "ParentSplit"
               /\ Len(leaves') = Len(leaves) + 1
               /\ LeafKeys(leaves'[i].node) \o LeafKeys(leaves'[i + 1].node)
                    = Ascending(keys \cup {k})

\* C30: insert_leaf on a sorted leaf of at most 12 cells returns DuplicateKey
\* and leaves the leaf as it was when the key is present; otherwise it
\* returns Success below 12 cells and ParentSplit at 12, and the key is
\* stored at its sorted position.
C30_InsertLeaf ==
    [][\A k \in 1..MaxNodeKey : NodeInsert(k) => InsertLeafPost(k)]_vars

C30_Witness ==
    /\ result.kind = "ParentSplit"
    /\ Len(leaves) >= 2
    /\ \E i \in 1..(Len(leaves) - 1) :
          Len(leaves[i].node.children) + Len(leaves[i + 1].node.children)
            = MAX_LEAF_NODES + 1



\* the smallest key of a set of keys
SmallestKey(S) == CHOOSE k \in S : \A j \in S : k <= j

\* C31: when a leaf splits, the separator handed to the parent is the
\* smallest key of the new right leaf, every key left in the old leaf is
\* smaller than the separator, the two leaves together hold exactly the old
\* cells and the inserted one, and neither leaf is empty.
C31_SplitSeparator ==
    [][FullRootLeafInsert =>
        LET c == root'.children[1]
            l == c.left.node
            r == c.right.node
        IN  /\ l.cells # <<>>
            /\ r.cells # <<>>
            /\ c.key = SmallestKey(KeysOf(r.cells))
            /\ \A k \in KeysOf(l.cells) : k < c.key
            /\ {l.cells[i] : i \in 1..Len(l.cells)} \cup {r.cells[i] : i \in 1..Len(r.cells)}
                 = {root.cells[i] : i \in 1..Len(root.cells)}
                     \cup {KeyValuePair(last'.row.id, last'.row)}
            /\ Len(l.cells) + Len(r.cells) = Len(root.cells) + 1]_vars



\* C32: insert_internal_child(key, right) on an internal node of S
\* separators and S + 1 children stores key at its sorted index i among the
\* separators and right at index i + 1 among the children, keeps the other
\* entries in order and the child count one above the separator count; a
\* key that is already a separator is a fatal error; and the call works on
\* the node Node::internal builds.
C32_InsertInternalChild ==
    codec.what = "insert_internal_child" =>
        LET n     == codec.input[1]
            key   == codec.input[2]
            right == codec.input[3]
            seps  == {n.separators[j] : j \in 1..Len(n.separators)}
            i     == Cardinality({k \in seps : k < key})
        IN  (Len(n.children) = Len(n.separators) + 1 \/ n = node_internal) =>
              IF key \in seps THEN codec.panic
              ELSE /\ ~codec.panic
                   /\ LET out == codec.output[1]
                      IN  /\ out.separators = Ascending(seps \cup {key})
                          /\ out.separators[i + 1] = key
                          /\ Len(out.children) = Len(out.separators) + 1
                          /\ out.children[i + 2] = right
                          /\ SubSeq(out.children, 1, i + 1)
                               \o SubSeq(out.children, i + 3, Len(out.children))
                               = n.children



\* the offset of the child the routing rule names for key k at an internal
\* node: the child right of the separator equal to k, else child i for i the
\* number of separators below k (the children of a node are the left page
\* of its first Child followed by the right page of each Child)
RuleChild(node, k) ==
    LET seps == [j \in 1..Len(node.children) |-> node.children[j].key]
        hits == {j \in 1..Len(seps) : seps[j] = k}
        i    == Cardinality({j \in 1..Len(seps) : seps[j] < k})
    IN  IF hits # {} THEN node.children[CHOOSE j \in hits : TRUE].right.page
        ELSE IF i = 0 THEN node.children[1].left.page
        ELSE node.children[i].right.page

\* C33: during find, at an internal node a key equal to separators[i] is
\* routed to child[i + 1], the child right of that separator, and a key
\* that matches no separator to child[i], i being the number of separators
\* smaller than the key.
C33_FindRouting ==
    (pc = "open" /\ root.kind = "Internal" /\ root.children # <<>>) =>
        \A k \in ProbeKeys :
            LET s      == BTree_find(k, root, pager, file)
                target == RuleChild(root, k)
                pages  == StoredPages(pager, file)
            IN  (~s.panic /\ target \in DOMAIN pages /\ ~IsInternalPage(pages[target])) =>
                    \A r \in s.results : r.cursor.page_num = target



\* the cells of a sequence, as a set
CellsOf(cells) == {cells[i] : i \in 1..Len(cells)}

\* C34: when an insert splits the root, the former root is moved to a
\* freshly allocated offset that no other node occupies, keeps its
\* remaining cells and has is_root cleared, and the node then stored at
\* offset 0 is an internal node with is_root set, exactly one separator and
\* the two children [former root's new offset, new sibling's offset].
C34_RootMoved ==
    [][FullRootLeafInsert =>
        LET c       == root'.children[1]
            moved   == c.left.node
            sibling == c.right.node
            cache   == pager'.page_cache
            new     == KeyValuePair(last'.row.id, last'.row)
        IN  /\ moved.page_num # 0
            /\ moved.page_num >= pager.num_pages
            /\ moved.page_num >= Len(file)
            /\ moved.page_num \notin DOMAIN pager.page_cache
            /\ moved.page_num # sibling.page_num
            /\ moved.page_num < pager'.num_pages
            /\ ~moved.is_root
            /\ CellsOf(moved.cells) \ {new}
                 = CellsOf(SubSeq(root.cells, 1, Len(root.cells) \div 2))
            /\ cache[moved.page_num] = Encode(moved)
            /\ cache[sibling.page_num] = Encode(sibling)
            /\ root'.kind = "Internal"
            /\ root'.is_root
            /\ root'.page_num = 0
            /\ Len(root'.children) = 1
            /\ cache[0] = Encode(root')
            /\ cache[0].is_root = 1
            /\ Len(cache[0].slots) = 1
            /\ cache[0].slots[1].left = moved.page_num
            /\ cache[0].slots[1].right = sibling.page_num]_vars

C34_Witness ==
    /\ pc = "open"
    /\ last.op = "insert"
    /\ result = InsertSuccess
    /\ root.kind = "Internal"
    /\ root.is_root
    /\ ops = 1
    /\ pager.page_cache[0].slots # <<>>
    /\ pager.page_cache[0].slots[1].left = pager.num_pages - 1



\* the node copies the tree holds in memory below and including n: the node
\* itself and the Fetched copies stored in the Child records of internal nodes
RECURSIVE MemoryCopies(_)
MemoryCopies(n) ==
    IF n.kind = "Leaf" THEN {n}
    ELSE {n} \cup UNION {UNION {MemoryCopies(n.children[i][side].node) :
                                  side \in {sd \in {"left", "right"} :
                                              n.children[i][sd].fetched}} :
                           i \in 1..Len(n.children)}

\* C35: after every completed insert each node copy the tree holds in
\* memory, the root handle and every Fetched child copy, equals the node the
\* pager cache holds at the same offset.
C35_CopiesCurrent ==
    (pc = "open" /\ last.op = "insert") =>
        \A n \in MemoryCopies(root) :
            /\ n.page_num \in DOMAIN pager.page_cache
            /\ Encode(n) = pager.page_cache[n.page_num]



\* C36: set_next_leaf(next) on a leaf stores next as the leaf's next_leaf
\* and returns the value it replaced, so that get_next_leaf on the node then
\* returns next; the same for set_last_leaf and get_last_leaf.
C36_SetNextLeaf ==
    \A i \in 1..Len(leaves) :
        \A next \in {None} \cup 0..Len(leaves) :
            LET n  == leaves[i].node
                sn == set_next_leaf(n, next)
                sl == set_last_leaf(n, next)
            IN  /\ sn.replaced = get_next_leaf(n)
                /\ get_next_leaf(sn.node) = next
                /\ sl.replaced = get_last_leaf(n)
                /\ get_last_leaf(sl.node) = next



\* C37: in every reachable state the num_cells field of each leaf, in
\* memory and in the pager cache, is the number of cells the leaf holds.
C37_NumCells ==
    /\ \A o \in DOMAIN pager.page_cache :
          ~IsInternalPage(pager.page_cache[o]) =>
              pager.page_cache[o].num_cells = Len(pager.page_cache[o].cells)
    /\ \A n \in MemoryCopies(root) :
          n.kind = "Leaf" => n.num_cells = Len(n.cells)

C37_Witness ==
    /\ pc = "open"
    /\ closes = 1
    /\ last.op = "insert"
    /\ result = InsertSuccess
    /\ root.kind = "Internal"
    /\ \E n \in MemoryCopies(root) :
          n.kind = "Leaf" /\ n.num_cells = (MAX_CELLS \div 2) + 1
    /\ \E o \in DOMAIN pager.page_cache :
          o # 0 /\ pager.page_cache[o].num_cells = (MAX_CELLS \div 2) + 1



\* the offsets of the nodes met from page o on through the child slots i..
\* of the internal pages, each as often as it is met, down to depth fuel
RECURSIVE TreeOffsets(_, _, _, _)
TreeOffsets(pages, o, i, fuel) ==
    IF o \notin DOMAIN pages \/ fuel = 0 THEN <<>>
    ELSE IF ~IsInternalPage(pages[o]) THEN <<o>>
    ELSE IF i > Len(pages[o].slots) THEN <<o>>
    ELSE TreeOffsets(pages, pages[o].slots[i].left, 1, fuel - 1)
           \o TreeOffsets(pages, pages[o].slots[i].right, 1, fuel - 1)
           \o TreeOffsets(pages, o, i + 1, fuel)

\* no node shares its offset with another node of the stored tree, and the
\* child offsets of the internal nodes, stored and in memory, name pages
\* below num_pages
OffsetsDistinct ==
    pc = "open" =>
        LET pages == StoredPages(pager, file)
            offs  == TreeOffsets(pages, 0, 1, Cardinality(DOMAIN pages) + 1)
        IN  /\ \A i, j \in 1..Len(offs) : offs[i] = offs[j] => i = j
            /\ \A o \in DOMAIN pages :
                  IsInternalPage(pages[o]) =>
                     \A i \in 1..Len(pages[o].slots) :
                        \A side \in {"left", "right"} :
                           /\ pages[o].slots[i][side] >= 0
                           /\ pages[o].slots[i][side] < pager.num_pages
                           /\ pages[o].slots[i][side] \in DOMAIN pages
            /\ \A n \in MemoryCopies(root) :
                  n.kind = "Internal" =>
                     \A i \in 1..Len(n.children) :
                        \A side \in {"left", "right"} :
                           /\ n.children[i][side].page >= 0
                           /\ n.children[i][side].page < pager.num_pages
                           /\ n.children[i][side].page \in DOMAIN pages

\* the pages an insert adds to the cache lie at offsets that held no page
FreshPages ==
    (pc = "open" /\ InsertStep) =>
        \A o \in DOMAIN pager'.page_cache \ DOMAIN pager.page_cache :
            /\ o >= pager.num_pages
            /\ o >= Len(file)
            /\ o < pager'.num_pages

\* C38: every page allocation made during an insert yields an offset that
\* no live node occupies: in every reachable state no two distinct nodes of
\* the tree share an offset, and every child offset stored in an internal
\* node is below num_pages and names a node of the tree.
C38_OffsetsDistinct == []OffsetsDistinct /\ [][FreshPages]_vars

C38_Witness ==
    /\ pc = "open"
    /\ last.op = "insert"
    /\ result = InsertSuccess
    /\ pager.num_pages >= 5
    /\ LET pages == StoredPages(pager, file)
       IN  /\ Len(TreeOffsets(pages, 0, 1, Cardinality(DOMAIN pages) + 1)) = 5
           /\ \E o \in DOMAIN pages : o # 0 /\ IsInternalPage(pages[o])



\* C39: in every reachable state execute_select ends with SelectSuccess:
\* throughout the scan a cursor whose end_of_table flag is false addresses
\* an existing cell of a leaf, so Cursor::value never fails.
C39_SelectSucceeds ==
    /\ pc = "open" => ~execute_select(pager, file, root).panic
    /\ last.op = "select" => result.kind = "SelectSuccess"



\* the cells of the leaves at the offsets offs, in that order
RECURSIVE TreeCells(_, _)
TreeCells(pages, offs) ==
    IF offs = <<>> THEN <<>>
    ELSE pages[offs[1]].cells \o TreeCells(pages, Tail(offs))

\* the cells stored in the leaves of the tree, left to right
StoredCells(pgr, f) ==
    TreeCells(StoredPages(pgr, f), LeafOffsets(StoredPages(pgr, f), 0, 1))

\* C40: an execute_insert that returns InsertSuccess increases the number
\* of rows stored in the leaves of the tree by exactly one and leaves every
\* previously stored (key, row) pair stored and unmodified; when no split
\* occurs it changes exactly one leaf and no other node.
C40_InsertFrame ==
    [][(pc = "open" /\ InsertStep /\ result' = InsertSuccess) =>
        LET before == StoredCells(pager, file)
            after  == StoredCells(pager', file')
            old    == StoredPages(pager, file)
            new    == StoredPages(pager', file')
        IN  /\ Len(after) = Len(before) + 1
            /\ CellsOf(before) \subseteq CellsOf(after)
            /\ \E i \in 1..Len(after) :
                  /\ after[i].key = last'.row.id
                  /\ after[i].value = RowSerialize(last'.row)
            /\ DOMAIN new = DOMAIN old =>
                  \E o \in DOMAIN old :
                     /\ ~IsInternalPage(old[o])
                     /\ ~IsInternalPage(new[o])
                     /\ new[o] # old[o]
                     /\ \A q \in DOMAIN old \ {o} : new[q] = old[q]]_vars


====
